---- MODULE Spec2Model ----
(***************************************************************************)
(* Model of the audio output stream manager of src/src/stream.rs:          *)
(* OutputStreamConfig / OutputStreamBuilder, OutputStream::open and        *)
(* init_stream (with the ten realtime callbacks), try_open_stream,         *)
(* try_default_stream and supported_output_configs.                        *)
(*                                                                         *)
(* The platform (cpal host and devices) is the environment: what each      *)
(* device reports and which stream configurations it accepts is chosen     *)
(* in the initial state from bounded sets.                                 *)
(***************************************************************************)
EXTENDS Integers, Sequences, FiniteSets, TLC

VARIABLES
    devs,       \* device id -> what the platform device reports / accepts
    host,       \* the cpal host: default output device, enumeration
    builder,    \* the OutputStreamBuilder under construction (or NoBuilder)
    lastOp,     \* the last operation performed and its argument
    result,     \* Result returned by the last open_stream / try_* call
    attempts,   \* every OutputStream::open made by the last call, in order
    stream_fmt, \* sample format the running stream was built with
    data,       \* the buffer the last realtime callback filled
    pulled      \* what samples.next() returned on each pull of that callback

vars == <<devs, host, builder, lastOp, result, attempts, stream_fmt, data, pulled>>

----------------------------------------------------------------------------
(* Bounds of the model *)

MaxChannels == 2      \* channel counts 0..MaxChannels are offered by callers
MaxLen == 2           \* longest callback buffer
MaxRecords == 2       \* longest list a device reports as supported configs
NumDevices == 2       \* output devices of the host

(* Program constants *)

HZ_44100 == 44100
PreferredBufferSize == 1024
DefaultChannelCount == 2

Rates == {22050, 44100, 48000}

Formats == {"F32", "F64", "I8", "I16", "I32", "I64", "U8", "U16", "U32", "U64"}

----------------------------------------------------------------------------
(* cpal::BufferSize and cpal::SupportedBufferSize *)

BufDefault == [kind |-> "Default", n |-> 0]
BufFixed(n) == [kind |-> "Fixed", n |-> n]

CapUnknown == [kind |-> "Unknown", min |-> 0, max |-> 0]
CapRange(lo, hi) == [kind |-> "Range", min |-> lo, max |-> hi]

\* Clamp without the upper bound
Clamp_NoUpper(x, lo, hi) == IF x < lo THEN lo ELSE x

\* u32::clamp: requires min <= max (the platform reports ranges so)
Clamp(x, lo, hi) == IF x < lo THEN lo ELSE IF x > hi THEN hi ELSE x

clamp_supported_buffer_size(buffer_size, preferred_size) ==
    IF buffer_size.kind = "Range"
    THEN BufFixed(Clamp(preferred_size, buffer_size.min, buffer_size.max))
    ELSE BufDefault

----------------------------------------------------------------------------
(* OutputStreamConfig and OutputStreamBuilder *)

OutputStreamConfig(ch, rate, buf, fmt) ==
    [buffer_size |-> buf, channel_count |-> ch, sample_rate |-> rate,
     sample_format |-> fmt]

DefaultConfig == OutputStreamConfig(DefaultChannelCount, HZ_44100, BufDefault, "I8")

\* device 0 stands for Option::None
NoDevice == 0

DefaultBuilder == [device |-> NoDevice, config |-> DefaultConfig]

\* the value left when a builder method panicked: the builder was moved
\* into the call and is gone
NoBuilder == [device |-> NoDevice,
              config |-> OutputStreamConfig(-1, -1, BufDefault, "none")]

with_device(b, d) == [b EXCEPT !.device = d]

with_channels_ok(channel_count) == channel_count > 0

with_channels(b, channel_count) ==
    IF with_channels_ok(channel_count)
    THEN [b EXCEPT !.config.channel_count = channel_count]
    ELSE NoBuilder

with_sample_rate(b, sample_rate) == [b EXCEPT !.config.sample_rate = sample_rate]

with_buffer_size(b, buffer_size) == [b EXCEPT !.config.buffer_size = buffer_size]

with_sample_format(b, sample_format) ==
    [b EXCEPT !.config.sample_format = sample_format]

\* config: a cpal::SupportedStreamConfig
\*   [channels, sample_rate, buffer_size (capability), sample_format]
with_supported_config(b, config) ==
    [b EXCEPT !.config =
        OutputStreamConfig(config.channels, config.sample_rate,
            clamp_supported_buffer_size(config.buffer_size, PreferredBufferSize),
            config.sample_format)]

\* config: a cpal::StreamConfig [channels, sample_rate, buffer_size]
with_config(b, config) ==
    [b EXCEPT !.config =
        OutputStreamConfig(config.channels, config.sample_rate,
            config.buffer_size, b.config.sample_format)]

StreamConfigOf(config) ==
    [buffer_size |-> config.buffer_size, sample_rate |-> config.sample_rate,
     channels |-> config.channel_count]

----------------------------------------------------------------------------
(* Sample values as the bytes stored in the device buffer (little endian). *)
(* Integers wider than 31 bits do not fit a model value, so every sample   *)
(* is kept as its byte sequence and MAX / 2 is computed on the bytes.      *)

Width(fmt) ==
    CASE fmt \in {"I8", "U8"} -> 1
      [] fmt \in {"I16", "U16"} -> 2
      [] fmt \in {"I32", "U32", "F32"} -> 4
      [] fmt \in {"I64", "U64", "F64"} -> 8

Zero(n) == [i \in 1..n |-> 0]

\* uN::MAX
MaxU(n) == [i \in 1..n |-> 255]

\* integer division by two of an unsigned little-endian value
Half(b) ==
    [i \in 1..Len(b) |->
        (b[i] \div 2) + (IF i < Len(b) THEN (b[i + 1] % 2) * 128 ELSE 0)]

\* 2^(8n-1): iN::MIN as two's complement, mid-scale of uN
TopBit(n) == [i \in 1..n |-> IF i = n THEN 128 ELSE 0]

\* what MixerSource::next() can return: None, or Some(s) for an f32 s;
\* the samples -1.0, 0.0, +1.0 stand for the f32 range
None == "None"
Samples == {"-1.0", "0.0", "+1.0"}
Pulls == {None} \cup Samples

\* the f32 sample itself (IEEE 754 bits) and its widening to f64
F32Bytes(s) ==
    CASE s = "0.0" -> Zero(4)
      [] s = "+1.0" -> <<0, 0, 128, 63>>
      [] s = "-1.0" -> <<0, 0, 128, 191>>

F64Bytes(s) ==
    CASE s = "0.0" -> Zero(8)
      [] s = "+1.0" -> <<0, 0, 0, 0, 0, 0, 240, 63>>
      [] s = "-1.0" -> <<0, 0, 0, 0, 0, 0, 240, 191>>

\* cpal::Sample::from_sample::<T, f32>: the saturating PCM conversion
from_sample(fmt, s) ==
    CASE fmt = "F32" -> F32Bytes(s)
      [] fmt = "F64" -> F64Bytes(s)
      [] fmt \in {"I8", "I16", "I32", "I64"} ->
            (CASE s = "0.0" -> Zero(Width(fmt))
               [] s = "+1.0" -> Half(MaxU(Width(fmt)))
               [] s = "-1.0" -> TopBit(Width(fmt)))
      [] fmt \in {"U8", "U16", "U32", "U64"} ->
            (CASE s = "0.0" -> TopBit(Width(fmt))
               [] s = "+1.0" -> MaxU(Width(fmt))
               [] s = "-1.0" -> Zero(Width(fmt)))

\* unwrap_or with the unsigned arms left at MAX
unwrap_or_value_max(fmt) ==
    CASE fmt \in {"F32", "I32"} -> Zero(4)
      [] fmt \in {"F64", "I64"} -> Zero(8)
      [] fmt = "I8"  -> Zero(1)
      [] fmt = "I16" -> Zero(2)
      [] fmt = "U8"  -> MaxU(1)
      [] fmt = "U16" -> MaxU(2)
      [] fmt = "U32" -> MaxU(4)
      [] fmt = "U64" -> MaxU(8)

\* the value given to unwrap_or in each of the ten arms of init_stream
unwrap_or_value(fmt) ==
    CASE fmt = "F32" -> Zero(4)              \* 0f32
      [] fmt = "F64" -> Zero(8)              \* 0f64
      [] fmt = "I8"  -> Zero(1)              \* 0i8
      [] fmt = "I16" -> Zero(2)              \* 0i16
      [] fmt = "I32" -> Zero(4)              \* 0i32
      [] fmt = "I64" -> Zero(8)              \* 0i64
      [] fmt = "U8"  -> Half(MaxU(1))        \* u8::MAX / 2
      [] fmt = "U16" -> Half(MaxU(2))        \* u16::MAX / 2
      [] fmt = "U32" -> Half(MaxU(4))        \* u32::MAX / 2
      [] fmt = "U64" -> Half(MaxU(8))        \* u64::MAX / 2

\* one slot: *d = samples.next().map(Sample::from_sample).unwrap_or(..)
slot_value(fmt, next) ==
    IF next = None THEN unwrap_or_value(fmt) ELSE from_sample(fmt, next)

\* MixerSource::next(): the mixer hands out what it has queued and None
\* once it has nothing
next_sample(queue) ==
    IF queue = <<>> THEN [item |-> None, rest |-> <<>>]
    ELSE [item |-> Head(queue), rest |-> Tail(queue)]

\* a slot of the platform buffer the callback has not written
Stale == <<>>

\* the data callback: data.iter_mut().for_each(|d| *d = ...), from slot i on;
\* pulled collects what each samples.next() returned
RECURSIVE data_callback(_, _, _, _, _)
data_callback(fmt, buf, i, queue, got) ==
    IF i > Len(buf)
    THEN [data |-> buf, pulled |-> got, queue |-> queue]
    ELSE LET nx == next_sample(queue) IN
         data_callback(fmt, [buf EXCEPT ![i] = slot_value(fmt, nx.item)],
                       i + 1, nx.rest, Append(got, nx.item))

----------------------------------------------------------------------------
(* Results and errors *)

NoStream == [attempt |-> 0, mixer |-> 0]
NoError == [attempt |-> 0, type |-> ""]

\* attempt: the OutputStream::open call that produced the error (0: none)
StreamError(type, attempt) == [attempt |-> attempt, type |-> type]

Ok(stream) == [kind |-> "Ok", stream |-> stream, err |-> NoError]
Err(e) == [kind |-> "Err", stream |-> NoStream, err |-> e]
\* expect("output device specified") on a builder without a device
Panic == [kind |-> "Panic", stream |-> NoStream, err |-> NoError]
NoResult == [kind |-> "None", stream |-> NoStream, err |-> NoError]

----------------------------------------------------------------------------
(* The platform device *)

\* cpal::SupportedStreamConfig
SupportedStreamConfig(ch, rate, cap, fmt) ==
    [buffer_size |-> cap, sample_rate |-> rate, sample_format |-> fmt,
     channels |-> ch]

\* cpal::SupportedStreamConfigRange
SupportedStreamConfigRange(ch, lo, hi, cap, fmt) ==
    [buffer_size |-> cap, sample_format |-> fmt, channels |-> ch,
     min_sample_rate |-> lo, max_sample_rate |-> hi]

with_rate(sf, rate) ==
    SupportedStreamConfig(sf.channels, rate, sf.buffer_size, sf.sample_format)

\* device.build_output_stream: the platform accepts the stream config or not
build_output_stream(device, config) ==
    config.sample_rate \in devs[device].accept

\* dynamic_mixer::mixer(channel_count, sample_rate): a new (Mixer,
\* MixerSource) pair; n pairs were created before it
mixer(channel_count, sample_rate, n) ==
    [channel_count |-> channel_count, sample_rate |-> sample_rate, id |-> n + 1]

\* OutputStream::init_stream: Ok(stream) carries the callback's format and
\* the MixerSource moved into the callback
init_stream(device, config, samples) ==
    IF config.sample_format \in Formats
    THEN IF build_output_stream(device, StreamConfigOf(config))
         THEN [fmt |-> config.sample_format, ok |-> TRUE, source |-> samples]
         ELSE [fmt |-> "", ok |-> FALSE, source |-> 0]
    ELSE [fmt |-> "", ok |-> FALSE, source |-> 0]

\* the record of one OutputStream::open call
Attempt(device, config, pair, events, stream) ==
    [device |-> device, config |-> config, pair |-> pair, events |-> events,
     cb_fmt |-> stream.fmt, cb_source |-> stream.source]

\* open returning the stream although it failed to start
open_ignoring_play(device, config, log) ==
    LET pair == mixer(config.channel_count, config.sample_rate, Len(log))
        n == Len(log) + 1
        stream == init_stream(device, config, pair.id)
    IN  IF ~stream.ok
        THEN [result |-> Err(StreamError("BuildStreamError", n)),
              attempts |-> Append(log, Attempt(device, config, pair,
                                          <<"build_err">>, stream))]
        ELSE [result |-> Ok([attempt |-> n, mixer |-> pair.id]),
              attempts |-> Append(log, Attempt(device, config, pair,
                            IF devs[device].play_ok THEN <<"build_ok", "play_ok">>
                            ELSE <<"build_ok", "play_err">>, stream))]

\* open handing out the Mixer of the first pair ever created
open_first_mixer(device, config, log) ==
    LET pair == mixer(config.channel_count, config.sample_rate, Len(log))
        n == Len(log) + 1
        stream == init_stream(device, config, pair.id)
    IN  IF ~stream.ok
        THEN [result |-> Err(StreamError("BuildStreamError", n)),
              attempts |-> Append(log, Attempt(device, config, pair,
                                          <<"build_err">>, stream))]
        ELSE IF ~devs[device].play_ok
        THEN [result |-> Err(StreamError("PlayStreamError", n)),
              attempts |-> Append(log, Attempt(device, config, pair,
                                          <<"build_ok", "play_err">>, stream))]
        ELSE [result |-> Ok([attempt |-> n, mixer |-> 1]),
              attempts |-> Append(log, Attempt(device, config, pair,
                                          <<"build_ok", "play_ok">>, stream))]

\* OutputStream::open(device, config); log holds the earlier attempts.
\* Returns the Result and the extended log.
open(device, config, log) ==
    LET pair == mixer(config.channel_count, config.sample_rate, Len(log))
        n == Len(log) + 1
        stream == init_stream(device, config, pair.id)
    IN  IF ~stream.ok
        THEN [result |-> Err(StreamError("BuildStreamError", n)),
              attempts |-> Append(log, Attempt(device, config, pair,
                                          <<"build_err">>, stream))]
        ELSE IF ~devs[device].play_ok
        THEN [result |-> Err(StreamError("PlayStreamError", n)),
              attempts |-> Append(log, Attempt(device, config, pair,
                                          <<"build_ok", "play_err">>, stream))]
        ELSE [result |-> Ok([attempt |-> n, mixer |-> pair.id]),
              attempts |-> Append(log, Attempt(device, config, pair,
                                          <<"build_ok", "play_ok">>, stream))]

\* OutputStreamBuilder::open_stream
open_stream(b, log) ==
    IF b.device = NoDevice
    THEN [result |-> Panic, attempts |-> log]
    ELSE open(b.device, b.config, log)

----------------------------------------------------------------------------
(* supported_output_configs *)

CmpBool(a, b) == IF a = b THEN 0 ELSE IF b THEN -1 ELSE 1
CmpInt(a, b) == IF a = b THEN 0 ELSE IF a < b THEN -1 ELSE 1

\* the first comparison of the list that is not Equal
RECURSIVE FirstNonEqual(_)
FirstNonEqual(cs) ==
    IF cs = <<>> THEN 0
    ELSE IF Head(cs) # 0 THEN Head(cs) ELSE FirstNonEqual(Tail(cs))

\* cpal::SupportedStreamConfigRange::cmp_default_heuristics: stereo, then
\* mono, then more channels; f32, then i16, then u16; a range holding
\* 44100 Hz; then the greater maximum rate
cmp_default_heuristics(a, b) ==
    FirstNonEqual(<<
        CmpBool(a.channels = 2, b.channels = 2),
        CmpBool(a.channels = 1, b.channels = 1),
        CmpInt(a.channels, b.channels),
        CmpBool(a.sample_format = "F32", b.sample_format = "F32"),
        CmpBool(a.sample_format = "I16", b.sample_format = "I16"),
        CmpBool(a.sample_format = "U16", b.sample_format = "U16"),
        CmpBool(a.min_sample_rate <= HZ_44100 /\ HZ_44100 <= a.max_sample_rate,
                b.min_sample_rate <= HZ_44100 /\ HZ_44100 <= b.max_sample_rate),
        CmpInt(a.max_sample_rate, b.max_sample_rate) >>)

\* the comparator given to sort_by: |a, b| b.cmp_default_heuristics(a)
sort_cmp(a, b) == cmp_default_heuristics(b, a)

\* x put into the sorted list s, behind every element it is not less than
RECURSIVE InsertSorted(_, _)
InsertSorted(s, x) ==
    IF s = <<>> THEN <<x>>
    ELSE IF sort_cmp(x, Head(s)) < 0 THEN <<x>> \o s
    ELSE <<Head(s)>> \o InsertSorted(Tail(s), x)

\* Vec::sort_by (stable)
RECURSIVE sort_by(_)
sort_by(v) ==
    IF v = <<>> THEN <<>>
    ELSE InsertSorted(sort_by(SubSeq(v, 1, Len(v) - 1)), v[Len(v)])

\* expand with 44100 Hz compared inclusively
expand_inclusive(sf) ==
    LET max_rate == sf.max_sample_rate
        min_rate == sf.min_sample_rate
    IN  <<with_rate(sf, max_rate)>>
        \o (IF HZ_44100 <= max_rate /\ HZ_44100 >= min_rate
            THEN <<with_rate(sf, HZ_44100)>> ELSE <<>>)
        \o <<with_rate(sf, min_rate)>>

\* the closure given to flat_map
expand(sf) ==
    LET max_rate == sf.max_sample_rate
        min_rate == sf.min_sample_rate
    IN  <<with_rate(sf, max_rate)>>
        \o (IF HZ_44100 < max_rate /\ HZ_44100 > min_rate
            THEN <<with_rate(sf, HZ_44100)>> ELSE <<>>)
        \o <<with_rate(sf, min_rate)>>

RECURSIVE flat_map(_)
flat_map(v) == IF v = <<>> THEN <<>> ELSE expand(Head(v)) \o flat_map(Tail(v))

\* supported_output_configs(device): Err when the device does not
\* enumerate (the ? operator), else the expanded candidates
supported_output_configs(device) ==
    IF ~devs[device].sup_ok
    THEN [ok |-> FALSE, configs |-> <<>>]
    ELSE [ok |-> TRUE, configs |-> flat_map(sort_by(devs[device].sup))]

----------------------------------------------------------------------------
(* try_open_stream and try_default_stream *)

\* the for loop ending in Err(NoDevice) instead of the first error
RECURSIVE try_candidates_no_device(_, _, _, _)
try_candidates_no_device(configs, i, err, log) ==
    IF i > Len(configs)
    THEN [result |-> Err(StreamError("NoDevice", 0)), attempts |-> log]
    ELSE LET r == open_stream(with_supported_config(DefaultBuilder, configs[i]),
                              log)
         IN  IF r.result.kind \in {"Ok", "Panic"} THEN r
             ELSE try_candidates_no_device(configs, i + 1, err, r.attempts)

\* the for loop of try_open_stream from candidate i on: each candidate is
\* opened through Self::default().with_supported_config(..).open_stream()
RECURSIVE try_candidates(_, _, _, _)
try_candidates(configs, i, err, log) ==
    IF i > Len(configs)
    THEN [result |-> Err(err), attempts |-> log]
    ELSE LET r == open_stream(with_supported_config(DefaultBuilder, configs[i]),
                              log)
         IN  IF r.result.kind \in {"Ok", "Panic"} THEN r
             ELSE try_candidates(configs, i + 1, err, r.attempts)

\* OutputStreamBuilder::try_open_stream
try_open_stream(b, log) ==
    IF b.device = NoDevice
    THEN [result |-> Panic, attempts |-> log]
    ELSE LET first == open(b.device, b.config, log) IN
         IF first.result.kind = "Ok" THEN first
         ELSE LET supported == supported_output_configs(b.device) IN
              IF ~supported.ok
              THEN [result |-> Err(StreamError("SupportedStreamConfigsError", 0)),
                    attempts |-> first.attempts]
              ELSE try_candidates(supported.configs, 1, first.result.err, first.attempts)

\* OutputStreamBuilder::from_device
from_device(device) ==
    IF ~devs[device].def_ok
    THEN [builder |-> NoBuilder,
          err |-> StreamError("DefaultStreamConfigError", 0), ok |-> FALSE]
    ELSE [builder |-> with_supported_config(with_device(DefaultBuilder, device),
                                            devs[device].def),
          err |-> NoError, ok |-> TRUE]

\* OutputStreamBuilder::from_default_device
from_default_device ==
    IF host.default = NoDevice
    THEN [builder |-> NoBuilder, err |-> StreamError("NoDevice", 0), ok |-> FALSE]
    ELSE from_device(host.default)

\* the find_map of try_default_stream over the devices from position i on
RECURSIVE find_map(_, _, _, _)
find_map(devices, i, original_err, log) ==
    IF i > Len(devices)
    THEN [result |-> Err(original_err), attempts |-> log]
    ELSE LET b == from_device(devices[i]) IN
         IF ~b.ok THEN find_map(devices, i + 1, original_err, log)
         ELSE LET r == try_open_stream(b.builder, log) IN
              IF r.result.kind \in {"Ok", "Panic"} THEN r
              ELSE find_map(devices, i + 1, original_err, r.attempts)

\* OutputStreamBuilder::try_default_stream
try_default_stream ==
    LET b == from_default_device
        first == IF b.ok THEN open_stream(b.builder, <<>>)
                 ELSE [result |-> Err(b.err), attempts |-> <<>>]
    IN  IF first.result.kind = "Ok" THEN first
        ELSE IF ~host.enum_ok
        THEN [result |-> Err(first.result.err), attempts |-> first.attempts]
        ELSE find_map(host.order, 1, first.result.err, first.attempts)

----------------------------------------------------------------------------
(* Inputs and environments *)

Devices == 1..NumDevices

\* sequences over S of length at most n
SeqUpTo(S, n) == UNION {[1..k -> S] : k \in 0..n}

\* all orders in which the host can enumerate its devices
Permutations_(S) ==
    {p \in [1..Cardinality(S) -> S] : \A i, j \in 1..Cardinality(S) :
                                        i # j => p[i] # p[j]}

BufCaps == {CapUnknown, CapRange(64, 8192), CapRange(128, 256),
            CapRange(2048, 4096)}

BuilderFormats == {"F32", "U8"}

\* the rates callers give to the builder
BuilderRates == {22050, 48000}

\* what a device reports as its default configuration
DeviceDefaults ==
    {SupportedStreamConfig(2, 48000, CapRange(64, 8192), "F32"),
     SupportedStreamConfig(2, 48000, CapRange(128, 256), "I16"),
     SupportedStreamConfig(1, 44100, CapUnknown, "F32")}

LastOp(op) ==
    [n |-> 0, b |-> NoBuilder, cap |-> CapUnknown, op |-> op]

Device(def_ok, def, sup_ok, sup, accept, play_ok) ==
    [accept |-> accept, play_ok |-> play_ok, sup_ok |-> sup_ok, sup |-> sup,
     def_ok |-> def_ok, def |-> def]

Host(default, enum_ok, order) ==
    [default |-> default, enum_ok |-> enum_ok, order |-> order]

----------------------------------------------------------------------------
(* The builder: every with_* method, from_device, open_stream *)

InitBuilder ==
    /\ \E bad \in {NoDevice} \cup Devices, def \in DeviceDefaults :
          devs = [d \in Devices |-> Device(d # bad, def, TRUE, <<>>, Rates, TRUE)]
    /\ host = Host(1, TRUE, [i \in Devices |-> i])
    /\ builder = DefaultBuilder
    /\ lastOp = LastOp("default")
    /\ result = NoResult
    /\ attempts = <<>>
    /\ stream_fmt = ""
    /\ data = <<>>
    /\ pulled = <<>>

\* a builder method ran: it leaves no open result behind
BuilderStep(b, op) ==
    /\ builder' = b
    /\ lastOp' = op
    /\ result' = NoResult
    /\ attempts' = <<>>
    /\ UNCHANGED <<devs, host, stream_fmt, data, pulled>>

\* OutputStreamBuilder::default()
NewBuilder ==
    /\ builder' = DefaultBuilder
    /\ lastOp' = LastOp("default")
    /\ result' = NoResult
    /\ attempts' = <<>>
    /\ UNCHANGED <<devs, host, stream_fmt, data, pulled>>

\* a failed from_device yields no builder
FromDevice ==
    \E d \in Devices :
        /\ builder' = from_device(d).builder
        /\ lastOp' = [LastOp(IF from_device(d).ok THEN "from_device"
                             ELSE "from_device_err")
                        EXCEPT !.cap = devs[d].def.buffer_size]
        /\ result' = NoResult
        /\ attempts' = <<>>
        /\ UNCHANGED <<devs, host, stream_fmt, data, pulled>>

WithDevice ==
    /\ builder # NoBuilder
    /\ \E d \in Devices : BuilderStep(with_device(builder, d), LastOp("with_device"))

WithChannels ==
    /\ builder # NoBuilder
    /\ \E n \in 0..MaxChannels :
        BuilderStep(with_channels(builder, n),
                    [LastOp("with_channels") EXCEPT !.n = n])

WithSampleRate ==
    /\ builder # NoBuilder
    /\ \E r \in BuilderRates :
        BuilderStep(with_sample_rate(builder, r), LastOp("with_sample_rate"))

WithBufferSize ==
    /\ builder # NoBuilder
    /\ \E bs \in {BufDefault, BufFixed(512)} :
        BuilderStep(with_buffer_size(builder, bs), LastOp("with_buffer_size"))

WithSampleFormat ==
    /\ builder # NoBuilder
    /\ \E f \in BuilderFormats :
        BuilderStep(with_sample_format(builder, f), LastOp("with_sample_format"))

WithSupportedConfig ==
    /\ builder # NoBuilder
    /\ \E ch \in 1..MaxChannels, r \in BuilderRates, cap \in BufCaps,
          f \in BuilderFormats :
        BuilderStep(with_supported_config(builder, SupportedStreamConfig(ch, r, cap, f)),
                    [LastOp("with_supported_config") EXCEPT !.cap = cap])

WithConfig ==
    /\ builder # NoBuilder
    /\ \E ch \in 0..MaxChannels, r \in BuilderRates, bs \in {BufDefault, BufFixed(512)} :
        BuilderStep(with_config(builder,
                        [buffer_size |-> bs, sample_rate |-> r, channels |-> ch]),
                    [LastOp("with_config") EXCEPT !.n = ch])

OpenStream ==
    /\ builder # NoBuilder
    /\ LET r == open_stream(builder, <<>>) IN
        /\ result' = r.result
        /\ attempts' = r.attempts
    /\ lastOp' = [LastOp("open_stream") EXCEPT !.b = builder]
    /\ UNCHANGED <<devs, host, builder, stream_fmt, data, pulled>>

NextBuilder ==
    \/ NewBuilder
    \/ FromDevice
    \/ WithDevice
    \/ WithChannels
    \/ WithSampleRate
    \/ WithBufferSize
    \/ WithSampleFormat
    \/ WithSupportedConfig
    \/ WithConfig
    \/ OpenStream

SpecBuilder == InitBuilder /\ [][NextBuilder]_vars

----------------------------------------------------------------------------
(* The realtime callback of a running stream *)

\* a stream of each sample format has been opened on device 1
InitCallback ==
    /\ devs = [d \in Devices |-> Device(TRUE,
                  SupportedStreamConfig(1, 22050, CapUnknown, "U8"),
                  TRUE, <<>>, Rates, TRUE)]
    /\ host = Host(1, TRUE, [i \in Devices |-> i])
    /\ \E f \in Formats :
          builder = with_sample_format(
                        with_channels(
                            with_sample_rate(with_device(DefaultBuilder, 1), 22050),
                            1),
                        f)
    /\ LET r == open_stream(builder, <<>>) IN
          /\ result = r.result
          /\ attempts = r.attempts
          /\ stream_fmt = r.attempts[r.result.stream.attempt].cb_fmt
    /\ lastOp = [LastOp("open_stream") EXCEPT !.b = builder]
    /\ data = <<>>
    /\ pulled = <<>>

\* the platform calls the data callback with a buffer of len slots while
\* the mixer has queue to give
DataCallback ==
    \E len \in 0..MaxLen, queue \in SeqUpTo(Pulls, MaxLen) :
        LET r == data_callback(stream_fmt, [i \in 1..len |-> Stale], 1, queue, <<>>)
        IN  /\ data' = r.data
            /\ pulled' = r.pulled
            /\ lastOp' = [LastOp("data_callback") EXCEPT !.n = len]
            /\ UNCHANGED <<devs, host, builder, result, attempts, stream_fmt>>

NextCallback == DataCallback

SpecCallback == InitCallback /\ [][NextCallback]_vars

----------------------------------------------------------------------------
(* Opening a stream on one device with fallback to its supported configs *)

\* the configuration records device 1 may report
\* [min, max] sample rates: 44100 Hz inside, at the minimum, at the maximum
Ranges == {<<22050, 48000>>, <<44100, 48000>>, <<22050, 44100>>}

\* channel count and sample format of the records
Shapes == {<<2, "F32">>, <<2, "I16">>, <<1, "F32">>}

Records ==
    {SupportedStreamConfigRange(sh[1], r[1], r[2],
        IF sh[2] = "F32" THEN CapRange(64, 8192) ELSE CapRange(128, 256), sh[2]) :
        sh \in Shapes, r \in Ranges}

\* the rates device 1 may accept
AcceptSets == {{}, {48000}, Rates}

\* a device that reports nothing and accepts nothing
DeadDevice ==
    Device(FALSE, SupportedStreamConfig(2, 44100, CapUnknown, "F32"),
           FALSE, <<>>, {}, FALSE)

InitOpen ==
    /\ \E sup_ok \in BOOLEAN, sup \in SeqUpTo(Records, MaxRecords),
          accept \in AcceptSets, play_ok \in BOOLEAN :
          /\ (~sup_ok => sup = <<>>)
          /\ devs = [d \in Devices |->
                        IF d = 1
                        THEN Device(TRUE,
                                 SupportedStreamConfig(2, 48000, CapRange(64, 8192), "F32"),
                                 sup_ok, sup, accept, play_ok)
                        ELSE DeadDevice]
    /\ host = Host(1, TRUE, [i \in Devices |-> i])
    /\ builder = DefaultBuilder
    /\ lastOp = LastOp("default")
    /\ result = NoResult
    /\ attempts = <<>>
    /\ stream_fmt = ""
    /\ data = <<>>
    /\ pulled = <<>>

\* the builders a caller hands to open_stream / try_open_stream
CallerBuilders ==
    {DefaultBuilder}
    \cup {with_sample_rate(with_device(DefaultBuilder, 1), r) : r \in Rates}
    \cup {from_device(1).builder}

OpenCall(b, op, r) ==
    /\ builder' = b
    /\ result' = r.result
    /\ attempts' = r.attempts
    /\ lastOp' = [LastOp(op) EXCEPT !.b = b]
    /\ UNCHANGED <<devs, host, stream_fmt, data, pulled>>

CallOpenStream ==
    \E b \in CallerBuilders : OpenCall(b, "open_stream", open_stream(b, <<>>))

CallTryOpenStream ==
    \E b \in CallerBuilders : OpenCall(b, "try_open_stream", try_open_stream(b, <<>>))

NextOpen ==
    \/ CallOpenStream
    \/ CallTryOpenStream

SpecOpen == InitOpen /\ [][NextOpen]_vars

----------------------------------------------------------------------------
(* The host's devices and try_default_stream *)

RecordA == SupportedStreamConfigRange(2, 22050, 48000, CapRange(64, 8192), "F32")

DefaultA == SupportedStreamConfig(2, 44100, CapRange(64, 8192), "F32")

\* each device: reports a default or not; enumerates nothing, an empty
\* list or one record; accepts no rate or every rate
HostDevices ==
    {Device(def_ok, DefaultA, sup[1], sup[2], accept, TRUE) :
        def_ok \in BOOLEAN,
        sup \in {<<FALSE, <<>>>>, <<TRUE, <<>>>>, <<TRUE, <<RecordA>>>>},
        accept \in {{}, Rates}}

Hosts ==
    {Host(d, FALSE, <<>>) : d \in {NoDevice} \cup Devices}
    \cup {Host(d, TRUE, o) : d \in {NoDevice} \cup Devices, o \in Permutations_(Devices)}

InitDefault ==
    /\ devs \in [Devices -> HostDevices]
    /\ host \in Hosts
    /\ builder = DefaultBuilder
    /\ lastOp = LastOp("default")
    /\ result = NoResult
    /\ attempts = <<>>
    /\ stream_fmt = ""
    /\ data = <<>>
    /\ pulled = <<>>

HostBuilders == {from_device(d).builder : d \in Devices}

HostOpenStream ==
    \E b \in HostBuilders : OpenCall(b, "open_stream", open_stream(b, <<>>))

HostTryOpenStream ==
    \E b \in HostBuilders : OpenCall(b, "try_open_stream", try_open_stream(b, <<>>))

\* a static method: no builder is involved
TryDefaultStream ==
    /\ builder' = DefaultBuilder
    /\ result' = try_default_stream.result
    /\ attempts' = try_default_stream.attempts
    /\ lastOp' = LastOp("try_default_stream")
    /\ UNCHANGED <<devs, host, stream_fmt, data, pulled>>

NextDefault ==
    \/ HostOpenStream
    \/ HostTryOpenStream
    \/ TryDefaultStream

SpecDefault == InitDefault /\ [][NextDefault]_vars

----------------------------------------------------------------------------
(* Properties of the builder (SpecBuilder) *)

\* C6: with_supported_config, and from_device which applies it to the
\* device default, set buffer_size to Fixed(x) where x = min if 1024 < min,
\* x = max if 1024 > max, else x = 1024, so that min <= x <= max, for a
\* reported Range{min, max}; and to Default for an Unknown capability.
\* Range[64, 8192] gives Fixed(1024) and Range[128, 256] gives Fixed(256).
C6_BufferClamp ==
    lastOp.op \in {"with_supported_config", "from_device"} =>
        LET cap == lastOp.cap
            bs == builder.config.buffer_size
        IN  /\ cap.kind = "Unknown" => bs = [kind |-> "Default", n |-> 0]
            /\ cap.kind = "Range" =>
                /\ bs.kind = "Fixed"
                /\ 1024 < cap.min => bs.n = cap.min
                /\ 1024 > cap.max => bs.n = cap.max
                /\ (cap.min <= 1024 /\ 1024 <= cap.max) => bs.n = 1024
                /\ cap.min <= bs.n /\ bs.n <= cap.max
            /\ (cap.kind = "Range" /\ cap.min = 64 /\ cap.max = 8192) => bs.n = 1024
            /\ (cap.kind = "Range" /\ cap.min = 128 /\ cap.max = 256) => bs.n = 256

\* with_supported_config has clamped 1024 down to the maximum of Range[128, 256]
C6_Witness ==
    /\ lastOp.op = "with_supported_config"
    /\ lastOp.cap.kind = "Range" /\ lastOp.cap.min = 128 /\ lastOp.cap.max = 256
    /\ builder.config.buffer_size.kind = "Fixed"
    /\ builder.config.buffer_size.n = 256

\* C8: every builder reachable from the default builder by with_channels,
\* with_sample_rate, with_buffer_size, with_sample_format,
\* with_supported_config and with_config has config.channel_count >= 1;
\* with_channels(0) yields no builder; and open_stream never passes a
\* config with channel_count = 0 to OutputStream::open.
C8_ChannelCountPositive ==
    /\ builder # NoBuilder => builder.config.channel_count >= 1
    /\ (lastOp.op = "with_channels" /\ lastOp.n = 0) => builder = NoBuilder
    /\ \A i \in 1..Len(attempts) : attempts[i].config.channel_count >= 1

----------------------------------------------------------------------------
(* Properties of the realtime callback (SpecCallback) *)

AllNone == \A i \in 1..Len(pulled) : pulled[i] = None

\* the silence value of each format, as the bytes of one slot
SilenceBytes ==
    [f \in Formats |->
        CASE f = "F32" -> <<0, 0, 0, 0>>
          [] f = "F64" -> <<0, 0, 0, 0, 0, 0, 0, 0>>
          [] f = "I8"  -> <<0>>
          [] f = "I16" -> <<0, 0>>
          [] f = "I32" -> <<0, 0, 0, 0>>
          [] f = "I64" -> <<0, 0, 0, 0, 0, 0, 0, 0>>
          [] f = "U8"  -> <<127>>                                   \* 255 / 2
          [] f = "U16" -> <<255, 127>>                              \* 65535 / 2
          [] f = "U32" -> <<255, 255, 255, 127>>                    \* (2^32 - 1) / 2
          [] f = "U64" -> <<255, 255, 255, 255, 255, 255, 255, 127>>] \* (2^64 - 1) / 2

\* C4: for each of the ten formats and every buffer length, when every pull
\* of a callback invocation yields no sample, the callback pulls exactly
\* once per slot, writes every slot, and every slot holds the format's
\* silence value (0.0 for floats, 0 for signed, MAX / 2 for unsigned).
C4_SilenceOnUnderflow ==
    (lastOp.op = "data_callback" /\ AllNone) =>
        /\ Len(data) = lastOp.n
        /\ Len(pulled) = lastOp.n
        /\ \A i \in 1..Len(data) : data[i] = SilenceBytes[stream_fmt]

\* a callback on a u64 stream filled a buffer of MaxLen slots from an
\* empty mixer
C4_Witness ==
    /\ lastOp.op = "data_callback"
    /\ lastOp.n = MaxLen
    /\ Len(pulled) = MaxLen
    /\ AllNone
    /\ stream_fmt = "U64"

\* C5: with sample format U8 and an empty mixer the callback writes 128
\* into every slot of the buffer.
C5_U8SilenceIs128 ==
    (lastOp.op = "data_callback" /\ stream_fmt = "U8" /\ AllNone) =>
        \A i \in 1..Len(data) : data[i] = <<128>>

----------------------------------------------------------------------------
(* Properties of open_stream and try_open_stream (SpecOpen) *)

Opened == <<"build_ok", "play_ok">>

\* the device opens a stream for this configuration: it accepts the
\* stream config and starts the stream
Accepts(d, rate) == rate \in devs[d].accept /\ devs[d].play_ok

\* try_open_stream ran on a builder with a device and its first attempt failed
FirstAttemptFailed ==
    /\ lastOp.op = "try_open_stream"
    /\ lastOp.b.device # NoDevice
    /\ ~Accepts(lastOp.b.device, lastOp.b.config.sample_rate)

\* the candidates of the device of the call, when it enumerates
Candidates ==
    IF devs[lastOp.b.device].sup_ok
    THEN supported_output_configs(lastOp.b.device).configs
    ELSE <<>>

\* C1: when the first attempt of try_open_stream fails and the device
\* accepts at least one candidate of its supported configurations,
\* try_open_stream returns Ok with a stream opened on that device with the
\* first accepted candidate (applied to a default builder), having
\* attempted the candidates before it and none after it.
C1_FallbackOpensFirstAccepted ==
    (FirstAttemptFailed
        /\ \E i \in 1..Len(Candidates) :
              Accepts(lastOp.b.device, Candidates[i].sample_rate)) =>
        LET d == lastOp.b.device
            k == CHOOSE i \in 1..Len(Candidates) :
                    /\ Accepts(d, Candidates[i].sample_rate)
                    /\ \A j \in 1..(i - 1) : ~Accepts(d, Candidates[j].sample_rate)
        IN  /\ result.kind = "Ok"
            /\ Len(attempts) = k + 1
            /\ result.stream.attempt = k + 1
            /\ attempts[k + 1].device = d
            /\ attempts[k + 1].events = Opened
            /\ \A j \in 1..k :
                  attempts[j + 1].config =
                      with_supported_config(DefaultBuilder, Candidates[j]).config

\* C3 as stated: whenever try_open_stream returns an error it is the error of
\* its first attempt; no failure of the fallback phase, the failure to
\* enumerate the supported configurations included, is returned.
C3_ErrorIsFirstAttempts ==
    (lastOp.op = "try_open_stream" /\ result.kind = "Err") =>
        /\ result.err.attempt = 1
        /\ result.err.type \in {"BuildStreamError", "PlayStreamError"}
        /\ result.err.type = "BuildStreamError" <=> attempts[1].events = <<"build_err">>

\* C3 amended: whenever try_open_stream returns an error it is the error of
\* its first attempt, except that when the device fails to enumerate its
\* supported configurations the SupportedStreamConfigsError of the
\* enumeration is returned; no failure of a candidate open is returned.
C3_ErrorIsFirstOrEnumeration ==
    (lastOp.op = "try_open_stream" /\ result.kind = "Err") =>
        IF devs[lastOp.b.device].sup_ok
        THEN /\ result.err.attempt = 1
             /\ result.err.type \in {"BuildStreamError", "PlayStreamError"}
             /\ result.err.type = "BuildStreamError" <=>
                    attempts[1].events = <<"build_err">>
        ELSE /\ result.err.type = "SupportedStreamConfigsError"
             /\ result.err.attempt = 0

\* try_open_stream returned an error after its first attempt failed to
\* start the stream and the device enumerated no supported configuration
C3_Witness ==
    /\ lastOp.op = "try_open_stream"
    /\ result.kind = "Err"
    /\ devs[lastOp.b.device].sup_ok
    /\ attempts[1].events = <<"build_ok", "play_err">>
    /\ result.err.type = "PlayStreamError"

\* the candidates cs are the expansions of the records rs, one after the
\* other: max-rate variant first, min-rate variant last, and the 44100 Hz
\* variant between them iff min < 44100 < max
RECURSIVE ExpandedInOrder(_, _)
ExpandedInOrder(cs, rs) ==
    IF rs = <<>> THEN cs = <<>>
    ELSE LET r == Head(rs)
             inside == r.min_sample_rate < 44100 /\ 44100 < r.max_sample_rate
             k == IF inside THEN 3 ELSE 2
             same(c) == /\ c.channels = r.channels
                        /\ c.sample_format = r.sample_format
                        /\ c.buffer_size = r.buffer_size
         IN  /\ Len(cs) >= k
             /\ \A i \in 1..k : same(cs[i])
             /\ cs[1].sample_rate = r.max_sample_rate
             /\ cs[k].sample_rate = r.min_sample_rate
             /\ inside => cs[2].sample_rate = 44100
             /\ ExpandedInOrder(SubSeq(cs, k + 1, Len(cs)), Tail(rs))

\* C7: supported_output_configs expands each reported record into 2 or 3
\* candidates (max rate first, min rate last, 44100 Hz between them iff
\* min < 44100 < max), the records taken in descending order of the vendor
\* heuristic, all candidates of a record before those of the next.
C7_SampleRateExpansion ==
    \A d \in Devices :
        devs[d].sup_ok =>
            LET sup == devs[d].sup
                n == Len(sup)
                cs == supported_output_configs(d).configs
            IN  \E p \in Permutations_(1..n) :
                    /\ \A i \in 1..(n - 1) :
                          cmp_default_heuristics(sup[p[i]], sup[p[i + 1]]) >= 0
                    /\ ExpandedInOrder(cs, [i \in 1..n |-> sup[p[i]]])

\* try_open_stream fell back to the candidates of a device that reports a
\* less preferred record of two candidates before a more preferred record
\* of three
C7_Witness ==
    /\ FirstAttemptFailed
    /\ devs[1].sup_ok
    /\ Len(devs[1].sup) >= 2
    /\ cmp_default_heuristics(devs[1].sup[1], devs[1].sup[2]) < 0
    /\ devs[1].sup[1].min_sample_rate = 44100
    /\ devs[1].sup[2].min_sample_rate < 44100
    /\ devs[1].sup[2].max_sample_rate > 44100
    /\ Len(supported_output_configs(1).configs) >= 5

\* C9: OutputStream::open builds the platform stream first and starts it
\* only if the build succeeded: a build failure returns BuildStreamError
\* and the stream is never started, a start failure after a successful
\* build returns PlayStreamError, and an OutputStream is returned only when
\* both succeeded, so every OutputStream has been started exactly once.
C9_OpenOutcome ==
    (lastOp.op = "open_stream" /\ lastOp.b.device # NoDevice) =>
        LET d == lastOp.b.device
            built == lastOp.b.config.sample_rate \in devs[d].accept
            ev == attempts[1].events
            Starts == Len(SelectSeq(ev, LAMBDA e : e \in {"play_ok", "play_err"}))
        IN  /\ Len(attempts) = 1
            /\ ~built =>
                  /\ result.kind = "Err"
                  /\ result.err.type = "BuildStreamError"
                  /\ Starts = 0
            /\ (built /\ ~devs[d].play_ok) =>
                  /\ result.kind = "Err"
                  /\ result.err.type = "PlayStreamError"
                  /\ ev = <<"build_ok", "play_err">>
            /\ result.kind = "Ok" =>
                  /\ built /\ devs[d].play_ok
                  /\ ev = <<"build_ok", "play_ok">>
                  /\ Starts = 1
            /\ Starts > 0 => ev[1] = "build_ok"

\* open_stream built a stream that then failed to start
C9_Witness ==
    /\ lastOp.op = "open_stream"
    /\ lastOp.b.device # NoDevice
    /\ result.kind = "Err"
    /\ result.err.type = "PlayStreamError"
    /\ attempts[1].events = <<"build_ok", "play_err">>

----------------------------------------------------------------------------
(* Properties of try_default_stream and of every returned stream         *)
(* (SpecDefault)                                                          *)

\* the device reports a default configuration and opens a stream for it
OpensDefault(d) == devs[d].def_ok /\ Accepts(d, devs[d].def.sample_rate)

\* C2: if the default device rejects every configuration, so that
\* from_default_device -> open_stream fails, and another device the host
\* enumerates accepts a configuration, try_default_stream returns Ok with a
\* stream opened on another device than the default one, in whatever order
\* the host enumerates its devices.
C2_DeviceFallback ==
    (/\ lastOp.op = "try_default_stream"
     /\ host.default # NoDevice
     /\ devs[host.default].accept = {}
     /\ host.enum_ok
     /\ \E d \in Devices \ {host.default} : OpensDefault(d)) =>
        /\ result.kind = "Ok"
        /\ attempts[result.stream.attempt].device # host.default
        /\ attempts[result.stream.attempt].events = Opened

\* C10: every open attempt creates its own (Mixer, MixerSource) pair, and
\* the Mixer of every returned OutputStream is the producer of the
\* MixerSource moved into the callback of the stream that was started,
\* created with the channel count and sample rate of the config that opened
\* the stream; no pair of a failed attempt is reachable from the stream.
C10_MixerPairing ==
    /\ \A i, j \in 1..Len(attempts) : i # j => attempts[i].pair.id # attempts[j].pair.id
    /\ result.kind = "Ok" =>
          LET a == attempts[result.stream.attempt] IN
          /\ result.stream.attempt = Len(attempts)
          /\ a.events = Opened
          /\ a.cb_source = result.stream.mixer
          /\ a.pair.id = result.stream.mixer
          /\ a.pair.channel_count = a.config.channel_count
          /\ a.pair.sample_rate = a.config.sample_rate
          /\ \A i \in 1..Len(attempts) :
                attempts[i].events # Opened => attempts[i].pair.id # result.stream.mixer

\* try_default_stream returned a stream of another device after the open
\* on the default device had failed
C10_Witness ==
    /\ lastOp.op = "try_default_stream"
    /\ result.kind = "Ok"
    /\ Len(attempts) >= 2
    /\ attempts[1].events # Opened
    /\ attempts[1].device = host.default
    /\ attempts[result.stream.attempt].device # host.default

====
